---- MODULE Spec2Model ----
(***************************************************************************)
(* Model of AutoML2015/data/data_io.py: dataset inventory                  *)
(* (inventory_data, inventory_data_dir, inventory_data_nodir,              *)
(* check_dataset), the binary sparse loader (data_binary_sparse) and the   *)
(* result copier (copy_results).                                           *)
(*                                                                         *)
(* Python strings are sequences of one-character strings, so that slicing, *)
(* reversing, index() and glob matching are computed character by          *)
(* character as the code computes them.  The POSIX build is modelled       *)
(* (os.name /= "nt", filesep = "/").                                       *)
(***************************************************************************)
EXTENDS Integers, Sequences, FiniteSets, TLC

VARIABLES
    c_dir,       \* codec: directory prefix of the path under decoding
    c_name,      \* codec: dataset name the path was built from
    c_out,       \* codec: result of the slice, or NotRun
    tree,        \* inventory: set of file paths below input_dir
    returned,    \* inventory: outcomes of the inventory_data calls so far
    result_dir,  \* copy: set of prediction file paths in result_dir
    output_dir,  \* copy: set of file paths in output_dir
    calls,       \* copy: outcomes of the copy_results calls so far
    sp_feat,     \* sparse: len(feat_type)
    sp_data,     \* sparse: list of rows of tokens (file_to_array's result)
    sp_out       \* sparse: outcome of data_binary_sparse, or NotRun

vars == <<c_dir, c_name, c_out, tree, returned, result_dir, output_dir, calls,
          sp_feat, sp_data, sp_out>>

codecVars == <<c_dir, c_name, c_out>>
invVars == <<tree, returned>>
copyVars == <<result_dir, output_dir, calls>>
sparseVars == <<sp_feat, sp_data, sp_out>>

(***************************************************************************)
(* Bounds of the model.                                                    *)
(***************************************************************************)
MaxNameLen == 3     \* codec: longest dataset name tried
MaxCells == 2       \* inventory: (directory, dataset) groups of files created
MaxRuns == 2        \* inventory: inventory_data calls on one tree
MaxNames == 2       \* copy: length of the datanames list
MaxCalls == 1       \* copy: copy_results calls
MaxRows == 2        \* sparse: lines of the data file
MaxTokens == 3      \* sparse: tokens in the data file, all lines together
MaxFeat == 2        \* sparse: len(feat_type)

(***************************************************************************)
(* Python string primitives.                                               *)
(***************************************************************************)
filesep == "/"

NotRun == [status |-> "notrun"]

\* code points of the characters the model uses (str comparison, list.sort)
Ord(c) ==
    CASE c = "-" -> 45 [] c = "." -> 46 [] c = "/" -> 47
      [] c = "0" -> 48 [] c = "1" -> 49 [] c = "2" -> 50 [] c = "3" -> 51
      [] c = "4" -> 52 [] c = "*" -> 42
      [] c = "_" -> 95 [] c = "a" -> 97 [] c = "b" -> 98 [] c = "c" -> 99
      [] c = "d" -> 100 [] c = "e" -> 101 [] c = "i" -> 105 [] c = "l" -> 108
      [] c = "n" -> 110 [] c = "o" -> 111 [] c = "p" -> 112 [] c = "r" -> 114
      [] c = "s" -> 115 [] c = "t" -> 116 [] c = "u" -> 117 [] c = "v" -> 118
      [] c = "x" -> 120

\* s[::-1]
Reverse(s) == [i \in 1..Len(s) |-> s[Len(s) + 1 - i]]

\* s.index(c): 0-based position of the first c, -1 standing for ValueError
StrIndex(s, c) ==
    IF \E i \in 1..Len(s) : s[i] = c
    THEN (CHOOSE i \in 1..Len(s) : s[i] = c /\ \A j \in 1..(i-1) : s[j] /= c) - 1
    ELSE -1

\* bound normalisation of s[i:j]: negative counts from the end, then clamp
SliceBound(n, i) ==
    LET k == IF i < 0 THEN i + n ELSE i
    IN  IF k < 0 THEN 0 ELSE IF k > n THEN n ELSE k

\* s[i:j]
PySlice(s, i, j) ==
    LET lo == SliceBound(Len(s), i)
        hi == SliceBound(Len(s), j)
    IN  IF lo >= hi THEN <<>> ELSE SubSeq(s, lo + 1, hi)

StartsWith(s, p) == Len(p) <= Len(s) /\ SubSeq(s, 1, Len(p)) = p

\* str < str: lexicographic on code points, a proper prefix first
RECURSIVE StrLess(_, _)
StrLess(s, t) ==
    IF t = <<>> THEN FALSE
    ELSE IF s = <<>> THEN TRUE
    ELSE IF Head(s) = Head(t) THEN StrLess(Tail(s), Tail(t))
    ELSE Ord(Head(s)) < Ord(Head(t))

\* os.path.join(a, b) of posixpath
PathJoin(a, b) ==
    IF StartsWith(b, <<"/">>) THEN b
    ELSE IF a = <<>> \/ a[Len(a)] = "/" THEN a \o b
    ELSE a \o <<"/">> \o b

\* fnmatch of one path against a glob pattern: "*" matches any run of
\* characters other than the separator, every other character itself
RECURSIVE FnMatch(_, _)
FnMatch(p, s) ==
    IF p = <<>> THEN s = <<>>
    ELSE IF Head(p) = "*"
         THEN FnMatch(Tail(p), s)
              \/ (s /= <<>> /\ Head(s) /= "/" /\ FnMatch(p, Tail(s)))
         ELSE s /= <<>> /\ Head(s) = Head(p) /\ FnMatch(Tail(p), Tail(s))

\* glob(pattern) over a set of files (no file or directory name of the model
\* starts with ".", which a leading "*" would not match)
Glob(files, p) == {f \in files : FnMatch(p, f)}

\* the orders in which glob may list a set of matches
Orders(S) ==
    {s \in [1..Cardinality(S) -> S] : \A i, j \in 1..Cardinality(S) : s[i] = s[j] => i = j}

Elems(s) == {s[i] : i \in 1..Len(s)}

(***************************************************************************)
(* File name grammar.                                                      *)
(***************************************************************************)
TrainData == <<"_", "t", "r", "a", "i", "n", ".", "d", "a", "t", "a">>
ValidData == <<"_", "v", "a", "l", "i", "d", ".", "d", "a", "t", "a">>
TestData == <<"_", "t", "e", "s", "t", ".", "d", "a", "t", "a">>
TrainSolution == <<"_", "t", "r", "a", "i", "n", ".", "s", "o", "l", "u", "t", "i", "o", "n">>

(***************************************************************************)
(* Name extraction, lines 116 and 125:                                     *)
(*   name[-name[::-1].index(filesep):-name[::-1].index('_')-1]             *)
(***************************************************************************)
NameFromPathFirstUnderscore(name) ==
    LET a == StrIndex(Reverse(name), filesep)
        b == StrIndex(PySlice(name, -a, Len(name)), "_")
    IN  IF a = -1 \/ b = -1
        THEN [ok |-> FALSE, val |-> <<>>]
        ELSE [ok |-> TRUE, val |-> PySlice(name, -a, Len(name) - a + b)]

NameFromPath(name) ==
    LET a == StrIndex(Reverse(name), filesep)
        b == StrIndex(Reverse(name), "_")
    IN  IF a = -1 \/ b = -1
        THEN [ok |-> FALSE, val |-> <<>>]
        ELSE [ok |-> TRUE, val |-> PySlice(name, -a, -b - 1)]

(***************************************************************************)
(* Codec specification: the slice applied to <dir><name>_train.data.       *)
(***************************************************************************)
NameChars == {"a", "_", "."}

RECURSIVE StringsUpTo(_, _)
StringsUpTo(chars, n) ==
    IF n = 0 THEN {<<>>}
    ELSE LET shorter == StringsUpTo(chars, n - 1)
         IN  shorter \cup {<<c>> \o s : c \in chars, s \in {t \in shorter : Len(t) = n - 1}}

CodecNames == StringsUpTo(NameChars, MaxNameLen)

CodecDirs == { <<"/">>, <<"d", "/">>, <<"d", "/", "x", "/">>, <<"a", "_", "b", "/">>,
               <<".", "/", "a", "_", "/">> }

CodecInit ==
    /\ c_dir \in CodecDirs
    /\ c_name \in CodecNames
    /\ c_out = NotRun
    /\ tree = {} /\ returned = <<>>
    /\ result_dir = {} /\ output_dir = {} /\ calls = <<>>
    /\ sp_feat = 0 /\ sp_data = <<>> /\ sp_out = NotRun

Decode ==
    /\ c_out = NotRun
    /\ c_out' = [status |-> "done", res |-> NameFromPath(c_dir \o c_name \o TrainData)]
    /\ UNCHANGED <<c_dir, c_name, invVars, copyVars, sparseVars>>

CodecNext == Decode

SpecCodec == CodecInit /\ [][CodecNext]_vars

\* C10: for every non-empty name without a separator (underscores included)
\* and every directory prefix ending in a separator, the slice applied to
\* <dir><name>_train.data yields exactly <name>.
C10_RoundTrip ==
    (c_out /= NotRun /\ c_name /= <<>>) => (c_out.res.ok /\ c_out.res.val = c_name)

C10_Witness ==
    /\ c_out /= NotRun
    /\ c_name = <<"a", "_", "a">>
    /\ c_out.res.val = c_name

(***************************************************************************)
(* Inventory of the datasets below input_dir.                              *)
(***************************************************************************)
InputDir == <<"d">>

Suffixes == {TrainData, ValidData, TestData, TrainSolution}

\* places a file can be in: input_dir itself, or a subdirectory of it
Flat == <<>>
SubDirs == {<<"a">>, <<"b">>}
Places == {Flat} \cup SubDirs

InvNames == {<<>>, <<"a">>, <<"b">>}

FilePath(place, name, suffix) ==
    IF place = Flat
    THEN PathJoin(InputDir, name \o suffix)
    ELSE PathJoin(PathJoin(InputDir, place), name \o suffix)

\* groups of files created together for one dataset in one place
Kits == { {TrainData},
          {TrainData, ValidData, TestData, TrainSolution},
          {ValidData, TestData, TrainSolution},
          {TrainData, TestData, TrainSolution},
          {TrainData, ValidData, TrainSolution},
          {TrainData, ValidData, TestData} }

CellFiles(place, name) == {FilePath(place, name, x) : x \in Suffixes}

UsedCells(files) ==
    {pn \in Places \X InvNames : CellFiles(pn[1], pn[2]) \cap files /= {}}

\* glob patterns of lines 113 and 122
NoDirPattern(input_dir) == PathJoin(input_dir, <<"*">> \o TrainData)
DirPattern(input_dir) == input_dir \o <<"/", "*", "/", "*">> \o TrainData

\* os.path.isfile
IsFile(files, path) == path \in files

\* check_dataset: "ok" when it returns True, "exit" when it calls exit(1)
check_dataset_no_solution(files, dirname, name) ==
    IF ~IsFile(files, PathJoin(dirname, name \o ValidData)) THEN "exit"
    ELSE IF ~IsFile(files, PathJoin(dirname, name \o TestData)) THEN "exit"
    ELSE "ok"

check_dataset(files, dirname, name) ==
    IF ~IsFile(files, PathJoin(dirname, name \o ValidData)) THEN "exit"
    ELSE IF ~IsFile(files, PathJoin(dirname, name \o TestData)) THEN "exit"
    ELSE IF ~IsFile(files, PathJoin(dirname, name \o TrainSolution)) THEN "exit"
    ELSE "ok"

\* the loop of inventory_data_nodir over the glob's list, from position i on
RECURSIVE NoDirLoop(_, _, _, _)
NoDirLoop(files, input_dir, training_names, i) ==
    IF i > Len(training_names) THEN [status |-> "returned", names |-> training_names]
    ELSE LET dec == NameFromPath(training_names[i])
         IN  IF ~dec.ok THEN [status |-> "ValueError", names |-> <<>>]
             ELSE IF check_dataset(files, input_dir, dec.val) = "exit"
             THEN [status |-> "exit", names |-> <<>>]
             ELSE NoDirLoop(files, input_dir,
                            [training_names EXCEPT ![i] = dec.val], i + 1)

\* inventory_data_nodir; listing is the glob's result in the order it came
inventory_data_nodir(files, input_dir, listing) ==
    NoDirLoop(files, input_dir, listing, 1)

\* the loop of inventory_data_dir over the glob's list, from position i on
RECURSIVE DirLoop(_, _, _, _)
DirLoop(files, input_dir, training_names, i) ==
    IF i > Len(training_names) THEN [status |-> "returned", names |-> training_names]
    ELSE LET dec == NameFromPath(training_names[i])
         IN  IF ~dec.ok THEN [status |-> "ValueError", names |-> <<>>]
             ELSE IF check_dataset(files, PathJoin(input_dir, dec.val), dec.val) = "exit"
             THEN [status |-> "exit", names |-> <<>>]
             ELSE DirLoop(files, input_dir,
                          [training_names EXCEPT ![i] = dec.val], i + 1)

inventory_data_dir(files, input_dir, listing) ==
    DirLoop(files, input_dir, listing, 1)

\* list.sort() on strings: ascending, stable
RECURSIVE InsertSorted(_, _)
InsertSorted(x, s) ==
    IF s = <<>> THEN <<x>>
    ELSE IF StrLess(x, Head(s)) THEN <<x>> \o s
    ELSE <<Head(s)>> \o InsertSorted(x, Tail(s))

RECURSIVE SortFrom(_, _)
SortFrom(done, rest) ==
    IF rest = <<>> THEN done
    ELSE SortFrom(InsertSorted(Head(rest), done), Tail(rest))

ListSortOmitted(names) == names

ListSort(names) == SortFrom(<<>>, names)

\* inventory_data; dirListing and nodirListing are what the two globs would
\* return; globs records which of them were called
inventory_data_merge(files, input_dir, dirListing, nodirListing) ==
    LET r1 == inventory_data_dir(files, input_dir, dirListing)
        r2 == inventory_data_nodir(files, input_dir, nodirListing)
    IN  IF r1.status /= "returned"
        THEN [status |-> r1.status, names |-> <<>>, globs |-> <<"dir">>]
        ELSE IF r2.status /= "returned"
        THEN [status |-> r2.status, names |-> <<>>, globs |-> <<"dir", "nodir">>]
        ELSE [status |-> "returned", names |-> ListSort(r1.names \o r2.names),
              globs |-> <<"dir", "nodir">>]

inventory_data(files, input_dir, dirListing, nodirListing) ==
    LET r1 == inventory_data_dir(files, input_dir, dirListing)
    IN  IF r1.status /= "returned"
        THEN [status |-> r1.status, names |-> <<>>, globs |-> <<"dir">>]
        ELSE IF Len(r1.names) = 0
        THEN LET r2 == inventory_data_nodir(files, input_dir, nodirListing)
             IN  IF r2.status /= "returned"
                 THEN [status |-> r2.status, names |-> <<>>,
                       globs |-> <<"dir", "nodir">>]
                 ELSE [status |-> "returned", names |-> ListSort(r2.names),
                       globs |-> <<"dir", "nodir">>]
        ELSE [status |-> "returned", names |-> ListSort(r1.names),
              globs |-> <<"dir">>]

InvInit ==
    /\ tree = {} /\ returned = <<>>
    /\ c_dir = <<"/">> /\ c_name = <<>> /\ c_out = NotRun
    /\ result_dir = {} /\ output_dir = {} /\ calls = <<>>
    /\ sp_feat = 0 /\ sp_data = <<>> /\ sp_out = NotRun

\* the environment puts the files of one dataset into one place, before the
\* inventory is taken
CreateFiles ==
    /\ returned = <<>>
    /\ Cardinality(UsedCells(tree)) < MaxCells
    /\ \E place \in Places, name \in InvNames, kit \in Kits :
          /\ <<place, name>> \notin UsedCells(tree)
          /\ tree' = tree \cup {FilePath(place, name, x) : x \in kit}
    /\ UNCHANGED <<returned, codecVars, copyVars, sparseVars>>

InventoryData ==
    /\ Len(returned) < MaxRuns
    /\ \E dirListing \in Orders(Glob(tree, DirPattern(InputDir))),
          nodirListing \in Orders(Glob(tree, NoDirPattern(InputDir))) :
          returned' = Append(returned,
                             inventory_data(tree, InputDir, dirListing, nodirListing))
    /\ UNCHANGED <<tree, codecVars, copyVars, sparseVars>>

InvNext == CreateFiles \/ InventoryData

SpecInventory == InvInit /\ [][InvNext]_vars

\* what the two globs match on the current tree, and the names they decode to
DirMatches == Glob(tree, DirPattern(InputDir))
NoDirMatches == Glob(tree, NoDirPattern(InputDir))
DecodedNames(paths) == {NameFromPath(p).val : p \in paths}

HasDuplicate(s) == \E i, j \in 1..Len(s) : i /= j /\ s[i] = s[j]

\* C1: a list inventory_data returns contains no dataset name twice.
C1_NoDuplicates ==
    \A k \in 1..Len(returned) :
        returned[k].status = "returned" => ~HasDuplicate(returned[k].names)

\* C9: every dataset name inventory_data returns is non-empty and contains no
\* path separator.
C9_NamesWellFormed ==
    \A k \in 1..Len(returned) :
        returned[k].status = "returned" =>
            \A i \in 1..Len(returned[k].names) :
                /\ returned[k].names[i] /= <<>>
                /\ filesep \notin Elems(returned[k].names[i])

\* the layout a run on the current tree validates: the nested one if its glob
\* matches anything, else the flat one; the directory each discovered name is
\* validated against
ScannedIsDir == DirMatches /= {}
Discovered == IF ScannedIsDir THEN DecodedNames(DirMatches) ELSE DecodedNames(NoDirMatches)
ValidatedIn(name) == IF ScannedIsDir THEN PathJoin(InputDir, name) ELSE InputDir
HasAllThree(name) ==
    /\ PathJoin(ValidatedIn(name), name \o ValidData) \in tree
    /\ PathJoin(ValidatedIn(name), name \o TestData) \in tree
    /\ PathJoin(ValidatedIn(name), name \o TrainSolution) \in tree

\* C4: if a discovered dataset lacks its _valid.data, _test.data or
\* _train.solution file in the directory it is validated against, the scan
\* halts (exit) and returns no names; a returned list never holds a dataset
\* for which the three files were not all found.
C4_MissingSplitHalts ==
    \A k \in 1..Len(returned) :
        /\ (\E n \in Discovered : ~HasAllThree(n)) =>
               (returned[k].status = "exit" /\ returned[k].names = <<>>)
        /\ returned[k].status = "returned" =>
               \A i \in 1..Len(returned[k].names) : HasAllThree(returned[k].names[i])

C4_Witness ==
    /\ Len(returned) = 2
    /\ returned[1].status = "exit"
    /\ Cardinality(Discovered) = 2
    /\ \E n \in Discovered : HasAllThree(n)
    /\ \E n \in Discovered : ~HasAllThree(n)

\* C5: the flat layout is consulted only when the nested layout yields no
\* dataset, and a returned list holds the names of exactly one layout: those
\* of the nested matches if there are any, else those of the flat matches.
C5_OneLayout ==
    \A k \in 1..Len(returned) :
        /\ "nodir" \in Elems(returned[k].globs) => DirMatches = {}
        /\ returned[k].globs[1] = "dir"
        /\ returned[k].status = "returned" =>
               Elems(returned[k].names) =
                   (IF DirMatches /= {} THEN DecodedNames(DirMatches)
                    ELSE DecodedNames(NoDirMatches))

C5_Witness ==
    /\ Len(returned) >= 1
    /\ returned[1].status = "returned"
    /\ DirMatches /= {} /\ NoDirMatches /= {}
    /\ DecodedNames(DirMatches) \cap DecodedNames(NoDirMatches) = {}
    /\ \A n \in DecodedNames(NoDirMatches) :
          check_dataset(tree, InputDir, n) = "ok"

IsAscending(s) == \A i \in 1..(Len(s) - 1) : ~StrLess(s[i + 1], s[i])

\* C6: on a tree on which the scan succeeds, every run returns the same list,
\* in ascending order, whatever order the globs list the files in.
C6_OrderIndependent ==
    \A k \in 1..Len(returned) :
        returned[k].status = "returned" =>
            /\ IsAscending(returned[k].names)
            /\ \A m \in 1..Len(returned) : returned[m] = returned[k]

C6_Witness ==
    /\ Len(returned) = 2
    /\ returned[1].status = "returned"
    /\ returned[1].names = << <<"a">>, <<"b">> >>
    /\ returned[2] = returned[1]

(***************************************************************************)
(* copy_results.  copy2 and glob are taken to succeed (the bare except of  *)
(* lines 193-195 is never entered); verbose is on, so that every vprint    *)
(* is a line of the report.                                                *)
(***************************************************************************)
ResultDir == <<"r">>
OutputDir == <<"o">>

TestPredict == <<"_", "t", "e", "s", "t", ".", "p", "r", "e", "d", "i", "c", "t">>
ValidPredict == <<"_", "v", "a", "l", "i", "d", ".", "p", "r", "e", "d", "i", "c", "t">>
TestPredict1 == <<"_", "t", "e", "s", "t", "_", "1", ".", "p", "r", "e", "d", "i", "c", "t">>

DataNames == {<<"a">>, <<"b">>}

\* the prediction files the predictor may leave in result_dir
PredictionFiles ==
    {PathJoin(ResultDir, n \o x) : n \in DataNames, x \in {TestPredict, ValidPredict}}
    \cup {PathJoin(ResultDir, <<"a">> \o TestPredict1)}

\* glob patterns of lines 182 and 187
TestPattern(rdir, basename) ==
    rdir \o <<"/">> \o basename \o <<"*", "_", "t", "e", "s", "t", "*">>
    \o <<".", "p", "r", "e", "d", "i", "c", "t">>
ValidPattern(rdir, basename) ==
    rdir \o <<"/">> \o basename \o <<"*", "_", "v", "a", "l", "i", "d", "*">>
    \o <<".", "p", "r", "e", "d", "i", "c", "t">>

\* os.path.basename
BaseName(path) ==
    LET a == StrIndex(Reverse(path), "/")
    IN  IF a = -1 THEN path ELSE PySlice(path, Len(path) - a, Len(path))

\* copy2(f, odir): the file the directory odir comes to hold
Copy2(f, odir) == PathJoin(odir, BaseName(f))

\* the loop of copy_results from dataset i on; out is output_dir's content,
\* copied the files copied and log the report so far
RECURSIVE CopyLoop(_, _, _, _, _, _, _)
CopyLoop(datanames, i, files, rdir, odir, st, log) ==
    IF i > Len(datanames)
    THEN [ret |-> 1, out |-> st.out, copied |-> st.copied, log |-> log]
    ELSE
    LET basename == datanames[i]
        test_files == Glob(files, TestPattern(rdir, basename))
        valid_files == Glob(files, ValidPattern(rdir, basename))
        st1 == [out |-> st.out \cup {Copy2(f, odir) : f \in test_files},
                copied |-> st.copied \cup test_files]
        st2 == [out |-> st1.out \cup {Copy2(f, odir) : f \in valid_files},
                copied |-> st1.copied \cup valid_files]
    IN  IF test_files = {}
        THEN [ret |-> 0, out |-> st.out, copied |-> st.copied,
              log |-> Append(log, <<"missing test", basename>>)]
        ELSE IF valid_files = {}
        THEN [ret |-> 0, out |-> st1.out, copied |-> st1.copied,
              log |-> Append(log, <<"missing valid", basename>>)]
        ELSE CopyLoop(datanames, i + 1, files, rdir, odir, st2,
                      Append(log, <<"copied", basename>>))

copy_results(datanames, files, rdir, odir, out) ==
    CopyLoop(datanames, 1, files, rdir, odir,
             [out |-> out, copied |-> {}], <<>>)

RECURSIVE SeqsUpTo(_, _)
SeqsUpTo(S, n) ==
    IF n = 0 THEN {<<>>}
    ELSE LET shorter == SeqsUpTo(S, n - 1)
         IN  shorter \cup {Append(s, x) : s \in {t \in shorter : Len(t) = n - 1}, x \in S}

CopyInit ==
    /\ result_dir = {} /\ output_dir = {} /\ calls = <<>>
    /\ tree = {} /\ returned = <<>>
    /\ c_dir = <<"/">> /\ c_name = <<>> /\ c_out = NotRun
    /\ sp_feat = 0 /\ sp_data = <<>> /\ sp_out = NotRun

\* the predictor writes a prediction file, before the results are copied
WritePrediction ==
    /\ calls = <<>>
    /\ \E f \in PredictionFiles \ result_dir : result_dir' = result_dir \cup {f}
    /\ UNCHANGED <<output_dir, calls, codecVars, invVars, sparseVars>>

CopyResults ==
    /\ Len(calls) < MaxCalls
    /\ \E datanames \in SeqsUpTo(DataNames, MaxNames) :
          LET r == copy_results(datanames, result_dir, ResultDir, OutputDir, output_dir)
          IN  /\ output_dir' = r.out
              /\ calls' = Append(calls, [datanames |-> datanames, ret |-> r.ret,
                                         copied |-> r.copied, log |-> r.log])
    /\ UNCHANGED <<result_dir, codecVars, invVars, sparseVars>>

CopyNext == WritePrediction \/ CopyResults

SpecCopy == CopyInit /\ [][CopyNext]_vars

TestFiles(name) == Glob(result_dir, TestPattern(ResultDir, name))
ValidFiles(name) == Glob(result_dir, ValidPattern(ResultDir, name))

\* C2: a dataset for which the test glob or the valid glob matches nothing
\* has none of its files copied to output_dir.
C2_NoPartialCopy ==
    \A k \in 1..Len(calls) :
        \A n \in Elems(calls[k].datanames) :
            (TestFiles(n) = {} \/ ValidFiles(n) = {}) =>
                /\ calls[k].copied \cap (TestFiles(n) \cup ValidFiles(n)) = {}
                /\ \A f \in TestFiles(n) \cup ValidFiles(n) :
                      Copy2(f, OutputDir) \notin output_dir

\* C3: whatever the order of the names, every dataset with a test and a valid
\* prediction file has all its matched files copied and is reported copied,
\* and every dataset missing a split is reported missing.
C3_FailureDoesNotAbort ==
    \A k \in 1..Len(calls) :
        \A n \in Elems(calls[k].datanames) :
            IF TestFiles(n) /= {} /\ ValidFiles(n) /= {}
            THEN /\ (TestFiles(n) \cup ValidFiles(n)) \subseteq calls[k].copied
                 /\ <<"copied", n>> \in Elems(calls[k].log)
            ELSE \/ <<"missing test", n>> \in Elems(calls[k].log)
                 \/ <<"missing valid", n>> \in Elems(calls[k].log)

(***************************************************************************)
(* data_binary_sparse.  sp_data is what data_converter.file_to_array       *)
(* hands back: one list of string tokens per line of the file.             *)
(***************************************************************************)
Digits == <<"0", "1", "2", "3", "4", "5", "6", "7", "8", "9">>

IsDigit(c) == \E d \in 1..Len(Digits) : Digits[d] = c
DigitVal(c) == (CHOOSE d \in 1..Len(Digits) : Digits[d] = c) - 1

RECURSIVE ParseDigits(_, _)
ParseDigits(s, acc) ==
    IF s = <<>> THEN acc ELSE ParseDigits(Tail(s), acc * Len(Digits) + DigitVal(Head(s)))

\* int(feature) on a token: an optional sign and decimal digits, else ValueError
PyInt(tok) ==
    LET signed == tok /= <<>> /\ tok[1] \in {"-", "+"}
        body == IF signed THEN Tail(tok) ELSE tok
    IN  IF body = <<>> \/ \E i \in 1..Len(body) : ~IsDigit(body[i])
        THEN [ok |-> FALSE, val |-> 0]
        ELSE [ok |-> TRUE,
              val |-> IF signed /\ tok[1] = "-" THEN 0 - ParseDigits(body, 0)
                      ELSE ParseDigits(body, 0)]

\* dok_matrix((nrows, ncols)): every entry zero (a zero dimension is accepted)
DokMatrix(nrows, ncols) ==
    [shape |-> <<nrows, ncols>>,
     val |-> [rc \in (0..(nrows - 1)) \X (0..(ncols - 1)) |-> 0]]

\* dok_sparse[i, j] = 1 of scipy's dok_matrix: an index in [0, n) is used as
\* it is, one in [-n, 0) counts from the end, any other raises IndexError
DokSetOneAdding(dok, i, j) ==
    LET ncols == dok.shape[2]
        jj == IF j < 0 THEN j + ncols ELSE j
    IN  IF jj < 0 \/ jj >= ncols
        THEN [ok |-> FALSE, dok |-> dok]
        ELSE [ok |-> TRUE,
              dok |-> [dok EXCEPT !.val[<<i, jj>>] = dok.val[<<i, jj>>] + 1]]

DokSetOne(dok, i, j) ==
    LET ncols == dok.shape[2]
        jj == IF j < 0 THEN j + ncols ELSE j
    IN  IF jj < 0 \/ jj >= ncols
        THEN [ok |-> FALSE, dok |-> dok]
        ELSE [ok |-> TRUE, dok |-> [dok EXCEPT !.val[<<i, jj>>] = 1]]

\* the columns of row r that hold a non-zero, ascending, from column c on
RECURSIVE RowCols(_, _, _)
RowCols(dok, r, c) ==
    IF c >= dok.shape[2] THEN <<>>
    ELSE (IF dok.val[<<r, c>>] /= 0 THEN <<c>> ELSE <<>>) \o RowCols(dok, r, c + 1)

\* dok_sparse.tocsr(): indptr, indices and data of the compressed rows
RECURSIVE CsrFrom(_, _, _)
CsrFrom(dok, r, acc) ==
    IF r >= dok.shape[1] THEN acc
    ELSE LET cols == RowCols(dok, r, 0)
         IN  CsrFrom(dok, r + 1,
                     [shape |-> acc.shape,
                      indptr |-> Append(acc.indptr, Len(acc.indices) + Len(cols)),
                      indices |-> acc.indices \o cols,
                      data |-> acc.data \o [k \in 1..Len(cols) |-> dok.val[<<r, cols[k]>>]]])

ToCsr(dok) ==
    CsrFrom(dok, 0, [shape |-> dok.shape, indptr |-> <<0>>, indices |-> <<>>, data |-> <<>>])

\* the two loops of lines 170-172, from token k of line row on
RECURSIVE FillLoop(_, _, _, _)
FillLoop(data, dok, row, k) ==
    IF row >= Len(data) THEN [status |-> "ok", dok |-> dok]
    ELSE IF k > Len(data[row + 1]) THEN FillLoop(data, dok, row + 1, 1)
    ELSE LET feature == PyInt(data[row + 1][k])
         IN  IF ~feature.ok THEN [status |-> "ValueError", dok |-> dok]
             ELSE LET set == DokSetOne(dok, row, feature.val - 1)
                  IN  IF ~set.ok THEN [status |-> "IndexError", dok |-> dok]
                      ELSE FillLoop(data, set.dok, row, k + 1)

data_binary_sparse(data, nfeat) ==
    LET nbr_samples == Len(data)
        filled == FillLoop(data, DokMatrix(nbr_samples, nfeat), 0, 1)
    IN  IF filled.status /= "ok" THEN [status |-> filled.status]
        ELSE [status |-> "ok", csr |-> ToCsr(filled.dok)]

\* matrix[r, c] read back from the compressed rows
RECURSIVE CsrSum(_, _, _, _)
CsrSum(csr, c, k, last) ==
    IF k > last THEN 0
    ELSE (IF csr.indices[k] = c THEN csr.data[k] ELSE 0) + CsrSum(csr, c, k + 1, last)

CsrGet(csr, r, c) == CsrSum(csr, c, csr.indptr[r + 1] + 1, csr.indptr[r + 2])

Tokens == {<<"-", "1">>, <<"0">>, <<"1">>, <<"2">>, <<"3">>, <<"x">>}

\* the files of at most nrows lines holding at most ntok tokens together
RECURSIVE DataFiles(_, _)
DataFiles(nrows, ntok) ==
    IF nrows = 0 THEN {<<>>}
    ELSE {<<>>} \cup
         UNION { { <<line>> \o rest : rest \in DataFiles(nrows - 1, ntok - Len(line)) } :
                 line \in SeqsUpTo(Tokens, ntok) }

SparseInit ==
    /\ sp_feat \in 0..MaxFeat
    /\ sp_data \in DataFiles(MaxRows, MaxTokens)
    /\ sp_out = NotRun
    /\ tree = {} /\ returned = <<>>
    /\ c_dir = <<"/">> /\ c_name = <<>> /\ c_out = NotRun
    /\ result_dir = {} /\ output_dir = {} /\ calls = <<>>

DataBinarySparse ==
    /\ sp_out = NotRun
    /\ sp_out' = data_binary_sparse(sp_data, sp_feat)
    /\ UNCHANGED <<sp_feat, sp_data, codecVars, invVars, copyVars>>

SparseNext == DataBinarySparse

SpecSparse == SparseInit /\ [][SparseNext]_vars

\* the indices written on line r (0-based) of the file, for numeric tokens
LineIndices(r) ==
    {PyInt(sp_data[r + 1][k]).val : k \in {j \in 1..Len(sp_data[r + 1]) : PyInt(sp_data[r + 1][j]).ok}}
AllNumeric == \A r \in 1..Len(sp_data) : \A k \in 1..Len(sp_data[r]) : PyInt(sp_data[r][k]).ok
AllIndices == UNION {LineIndices(r) : r \in 0..(Len(sp_data) - 1)}

\* C7: the load fails, returning no matrix, whenever a line holds an index
\* outside [1, len(feat_type)].
C7_OutOfRangeFails ==
    (sp_out /= NotRun /\ \E x \in AllIndices : x < 1 \/ x > sp_feat) =>
        sp_out.status /= "ok"

\* C8: when every index lies in [1, F], the load returns a matrix with one
\* row per line and F columns whose entry (r, c) is 1 if index c+1 occurs on
\* line r (once or several times) and 0 otherwise.
C8_BinaryEntries ==
    (sp_out /= NotRun /\ AllNumeric /\ \A x \in AllIndices : 1 <= x /\ x <= sp_feat) =>
        /\ sp_out.status = "ok"
        /\ sp_out.csr.shape = <<Len(sp_data), sp_feat>>
        /\ Len(sp_out.csr.indptr) = Len(sp_data) + 1
        /\ \A r \in 0..(Len(sp_data) - 1), c \in 0..(sp_feat - 1) :
              CsrGet(sp_out.csr, r, c) = (IF (c + 1) \in LineIndices(r) THEN 1 ELSE 0)

C8_Witness ==
    /\ sp_out /= NotRun
    /\ sp_feat = 2
    /\ sp_data = << <<<<"2">>, <<"2">>>>, <<<<"1">>>> >>
    /\ sp_out.status = "ok"
    /\ CsrGet(sp_out.csr, 0, 1) = 1 /\ CsrGet(sp_out.csr, 0, 0) = 0

====
